---- MODULE Spec2Model ----
(***************************************************************************)
(* Model of run_command (ocs_ci/helpers/performance_lib.py).              *)
(*                                                                         *)
(* Text is a sequence of one-character strings; a fixed piece of an        *)
(* f-string is a single element of the sequence.  Bytes are integers and   *)
(* the child process's streams are the UTF-8 encodings of texts over       *)
(* Alphabet.  One call is followed from the caller's arguments to its      *)
(* outcome: Call (argument binding and lines 85-92), Spawn (lines 94-104), *)
(* LogStreams (lines 106-118) and Finish (lines 120-149).                  *)
(***************************************************************************)
EXTENDS Integers, Sequences, FiniteSets, TLC

\* Longest standard output / standard error the child process writes.
MaxOut == 2
MaxErr == 1

VARIABLES pc, cmd, posFmt, kwFmt, secrets, ignore_error, extra,
          out_format, kwargs, masked_cmd, command, spawned, cp,
          output, err, masked_stdout, masked_stderr, logs, outcome, ret, exc

vars == <<pc, cmd, posFmt, kwFmt, secrets, ignore_error, extra,
          out_format, kwargs, masked_cmd, command, spawned, cp,
          output, err, masked_stdout, masked_stderr, logs, outcome, ret, exc>>

(***************************************************************************)
(* Values                                                                  *)
(***************************************************************************)
Absent == "<absent>"
Formats == {"string", "list", "json", "yaml", "exit_code", "cpobj"}
PIPE == "PIPE"
NL == "\n"
Alphabet == {"1", "s", NL}
Digits == {"1"}
ExitCodes == {-1, 0, 1}

Val(t, v) == [type |-> t, val |-> v]
NoValue == Val("unset", <<>>)
PyNone == Val("None", <<>>)

\* The commands a caller passes: a string, a list of strings, a number.
Cmds == { Val("str", <<"1", " ", "s">>),
          Val("list", << <<"1">>, <<"s">> >>),
          Val("int", 5) }

\* secrets=None, secrets=[], and two non-empty lists of literal secrets.
SecretArgs == { [given |-> FALSE, list |-> <<>>],
                [given |-> TRUE, list |-> <<>>],
                [given |-> TRUE, list |-> << <<"s">> >>],
                [given |-> TRUE, list |-> << <<"1", "s">>, <<"s">> >>] }

\* Other keyword arguments of the caller, handed on to subprocess.run.
\* A keyword dictionary is a set of <<key, value>> pairs.
ExtraArgs == { {}, {<<"cwd", "/tmp">>, <<"stdout", "DEVNULL">>} }
Keys(kw) == { p[1] : p \in kw }

RECURSIVE SeqsUpTo(_, _)
SeqsUpTo(S, n) ==
  IF n = 0 THEN { <<>> }
  ELSE LET shorter == SeqsUpTo(S, n - 1)
       IN shorter \cup { Append(t, c) : t \in shorter, c \in S }

(***************************************************************************)
(* bytes.decode() / str.encode() over the alphabet                         *)
(***************************************************************************)
Ord(c) == CASE c = "1" -> 49 [] c = "s" -> 115 [] c = NL -> 10
Chr(b) == CASE b = 49 -> "1" [] b = 115 -> "s" [] b = 10 -> NL
Encode(t) == [i \in 1..Len(t) |-> Ord(t[i])]
Decode(bs) == [i \in 1..Len(bs) |-> Chr(bs[i])]

\* str(int) inside an f-string
IntStr(n) == CASE n = 0 -> <<"0">> [] n = 1 -> <<"1">> [] n = 2 -> <<"2">>
             [] n = -1 -> <<"-", "1">> [] n = -2 -> <<"-", "2">>

RECURSIVE ReprItems(_)
ReprItems(l) ==
  IF Len(l) = 0 THEN <<>>
  ELSE <<"'">> \o l[1] \o <<"'">>
       \o (IF Len(l) > 1 THEN <<",", " ">> ELSE <<>>) \o ReprItems(Tail(l))

\* How a str, a list of str or an int is rendered by an f-string.
Format(v) == CASE v.type = "str" -> v.val
               [] v.type = "list" -> <<"[">> \o ReprItems(v.val) \o <<"]">>
               [] v.type = "int" -> <<"5">>

Contains(t, p) ==
  \E i \in 0..(Len(t) - Len(p)) : SubSeq(t, i + 1, i + Len(p)) = p

(***************************************************************************)
(* mask_secrets (ocs_ci/utility/utils.py)                                  *)
(***************************************************************************)
Mask == <<"*", "*", "*", "*", "*">>

\* str.replace(secret, "*" * 5): leftmost, non-overlapping occurrences.
RECURSIVE Replace(_, _)
Replace(t, s) ==
  IF Len(t) < Len(s) THEN t
  ELSE IF SubSeq(t, 1, Len(s)) = s
       THEN Mask \o Replace(SubSeq(t, Len(s) + 1, Len(t)), s)
       ELSE <<t[1]>> \o Replace(Tail(t), s)

RECURSIVE ReplaceAll(_, _)
ReplaceAll(t, ss) ==
  IF Len(ss) = 0 THEN t ELSE ReplaceAll(Replace(t, ss[1]), Tail(ss))

\* No secrets (None or []) returns the argument untouched; otherwise the
\* secrets are replaced in a string, or in each string of a list.  Any
\* other argument has no replace operation: the call raises.
MaskSecrets(plaintext, sec) ==
  IF ~sec.given \/ Len(sec.list) = 0 THEN [raised |-> FALSE, value |-> plaintext]
  ELSE CASE plaintext.type = "str" ->
              [raised |-> FALSE,
               value |-> Val("str", ReplaceAll(plaintext.val, sec.list))]
         [] plaintext.type = "list" ->
              [raised |-> FALSE,
               value |-> Val("list", [i \in 1..Len(plaintext.val) |->
                                        ReplaceAll(plaintext.val[i], sec.list)])]
         [] OTHER -> [raised |-> TRUE, value |-> plaintext]

MaskText(t, sec) == MaskSecrets(Val("str", t), sec).value.val

(***************************************************************************)
(* str.split() and str.split("\n")                                         *)
(***************************************************************************)
RECURSIVE SplitWhitespace(_, _)
SplitWhitespace(t, word) ==
  IF Len(t) = 0 THEN (IF Len(word) = 0 THEN <<>> ELSE <<word>>)
  ELSE IF t[1] \in {" ", NL}
       THEN (IF Len(word) = 0 THEN <<>> ELSE <<word>>) \o SplitWhitespace(Tail(t), <<>>)
       ELSE SplitWhitespace(Tail(t), Append(word, t[1]))

\* SplitNewline with an empty text split into no element at all.
RECURSIVE SplitNewlineNoEmpty(_)
SplitNewlineNoEmpty(t) ==
  IF Len(t) = 0 THEN <<>>
  ELSE IF \A i \in 1..Len(t) : t[i] # NL THEN <<t>>
  ELSE LET i == CHOOSE k \in 1..Len(t) : t[k] = NL /\ \A j \in 1..(k - 1) : t[j] # NL
       IN <<SubSeq(t, 1, i - 1)>> \o SplitNewlineNoEmpty(SubSeq(t, i + 1, Len(t)))

RECURSIVE SplitNewline(_)
SplitNewline(t) ==
  IF \A i \in 1..Len(t) : t[i] # NL THEN <<t>>
  ELSE LET i == CHOOSE k \in 1..Len(t) : t[k] = NL /\ \A j \in 1..(k - 1) : t[j] # NL
       IN <<SubSeq(t, 1, i - 1)>> \o SplitNewline(SubSeq(t, i + 1, Len(t)))

\* list.pop(): IndexError on an empty list, else the list without its last element.
Pop(l) ==
  IF Len(l) = 0 THEN [raised |-> TRUE, value |-> l]
  ELSE [raised |-> FALSE, value |-> SubSeq(l, 1, Len(l) - 1)]

(***************************************************************************)
(* Pieces of run_command                                                   *)
(***************************************************************************)
Log(level, msg) == [level |-> level, msg |-> msg]

NoCp == [args |-> <<>>, returncode |-> 0, stdout |-> <<>>, stderr |-> <<>>]

\* Binding of the call's arguments to the signature: out_format is a named
\* parameter, so a keyword out_format is that parameter and never an entry
\* of kwargs; given both by position and by keyword the call is a TypeError.
BindOutFormat(pf, kf) ==
  IF pf # Absent /\ kf # Absent THEN [raised |-> TRUE, out_format |-> Absent]
  ELSE [raised |-> FALSE,
        out_format |-> IF pf # Absent THEN pf
                       ELSE IF kf # Absent THEN kf ELSE "string"]

\* isinstance(cmd, str) / isinstance(cmd, list) / else
Normalize(c) ==
  CASE c.type = "str" -> [ok |-> TRUE, command |-> SplitWhitespace(c.val, <<>>)]
    [] c.type = "list" -> [ok |-> TRUE, command |-> c.val]
    [] OTHER -> [ok |-> FALSE, command |-> <<>>]

PipeKeys == {"stdout", "stderr", "stdin"}
ForcePipes(kw) ==
  { p \in kw : p[1] \notin PipeKeys } \cup { <<k, PIPE>> : k \in PipeKeys }

\* if "out_format" in kwargs: out_format = kwargs["out_format"]; del ...
PopOutFormat(kw, fmt) ==
  IF "out_format" \in Keys(kw)
  THEN [out_format |-> (CHOOSE p \in kw : p[1] = "out_format")[2],
        kwargs |-> { p \in kw : p[1] # "out_format" }]
  ELSE [out_format |-> fmt, kwargs |-> kw]

\* StreamLogs with the stderr line written before the stdout line.
StreamLogsStderrFirst(out, er, rc, m_out, m_err) ==
  << IF Len(er) > 0 THEN Log("WARNING", <<"Command stderr: ">> \o m_err)
                    ELSE Log("DEBUG", <<"Command stderr is empty">>),
     IF Len(out) > 0 THEN Log("DEBUG", <<"Command stdout: ">> \o m_out)
                     ELSE Log("DEBUG", <<"Command stdout is empty">>),
     Log("DEBUG", <<"Command return code: ">> \o IntStr(rc)) >>

\* The three log calls that follow the child process.
StreamLogs(out, er, rc, m_out, m_err) ==
  << IF Len(out) > 0 THEN Log("DEBUG", <<"Command stdout: ">> \o m_out)
                     ELSE Log("DEBUG", <<"Command stdout is empty">>),
     IF Len(er) > 0 THEN Log("WARNING", <<"Command stderr: ">> \o m_err)
                    ELSE Log("DEBUG", <<"Command stderr is empty">>),
     Log("DEBUG", <<"Command return code: ">> \o IntStr(rc)) >>

\* json.loads: over the alphabet the only documents are integers, with
\* white space allowed around them.
StripNL(t) ==
  LET idx == { i \in 1..Len(t) : t[i] # NL }
  IN IF idx = {} THEN <<>>
     ELSE LET lo == CHOOSE i \in idx : \A j \in idx : i <= j
              hi == CHOOSE i \in idx : \A j \in idx : j <= i
          IN SubSeq(t, lo, hi)

RECURSIVE DigitsToInt(_)
DigitsToInt(t) ==
  IF Len(t) = 0 THEN 0
  ELSE 10 * DigitsToInt(SubSeq(t, 1, Len(t) - 1)) + 1

AllDigits(t) == Len(t) > 0 /\ \A i \in 1..Len(t) : t[i] \in Digits

JsonLoads(t) ==
  LET body == StripNL(t)
  IN IF AllDigits(body) THEN [raised |-> FALSE, value |-> Val("int", DigitsToInt(body))]
     ELSE [raised |-> TRUE, value |-> NoValue]

\* yaml.safe_load: over the alphabet a document is empty (None) or one plain
\* scalar; a line break inside it folds to a space, each further one to a
\* line break; a scalar of digits is an integer.
RECURSIVE Fold(_)
Fold(t) ==
  IF Len(t) = 0 THEN <<>>
  ELSE IF t[1] # NL THEN <<t[1]>> \o Fold(Tail(t))
  ELSE LET n == CHOOSE k \in 1..Len(t) :
                  /\ \A j \in 1..k : t[j] = NL
                  /\ (k = Len(t) \/ t[k + 1] # NL)
       IN (IF n = 1 THEN <<" ">> ELSE [i \in 1..(n - 1) |-> NL])
          \o Fold(SubSeq(t, n + 1, Len(t)))

YamlSafeLoad(t) ==
  LET body == StripNL(t)
  IN IF Len(body) = 0 THEN PyNone
     ELSE IF AllDigits(body) THEN Val("int", DigitsToInt(body))
     ELSE Val("str", Fold(body))

Returned(v) == [outcome |-> "returned", ret |-> v]
Raised(e) == [outcome |-> e, ret |-> NoValue]

\* ZeroExit without the exit_code conversion.
ZeroExitNoExitCode(out, fmt, c) ==
  CASE fmt = "cpobj" -> Returned(Val("cpobj", c))
    [] fmt = "list" ->
         LET popped == Pop(SplitNewline(out))
         IN IF popped.raised THEN Raised("IndexError")
            ELSE Returned(Val("list", popped.value))
    [] fmt = "json" ->
         LET parsed == JsonLoads(out)
         IN IF parsed.raised THEN Raised("JSONDecodeError")
            ELSE Returned(parsed.value)
    [] fmt = "yaml" -> Returned(YamlSafeLoad(out))
    [] OTHER -> Returned(Val("str", out))

\* The branch for exit code zero (lines 132-147).
ZeroExit(out, fmt, c) ==
  CASE fmt = "exit_code" -> Returned(Val("int", c.returncode))
    [] fmt = "cpobj" -> Returned(Val("cpobj", c))
    [] fmt = "list" ->
         LET popped == Pop(SplitNewline(out))
         IN IF popped.raised THEN Raised("IndexError")
            ELSE Returned(Val("list", popped.value))
    [] fmt = "json" ->
         LET parsed == JsonLoads(out)
         IN IF parsed.raised THEN Raised("JSONDecodeError")
            ELSE Returned(parsed.value)
    [] fmt = "yaml" -> Returned(YamlSafeLoad(out))
    [] OTHER -> Returned(Val("str", out))

ErrorLog(rc, er) ==
  Log("ERROR", <<"Command finished with non zero (">> \o IntStr(rc) \o <<"): ">> \o er)

Annotated(out, rc, er) ==
  out \o <<"Error in command (">> \o IntStr(rc) \o <<"): ">> \o er

\* FailureMessage without the stderr.
FailureMessageNoStderr(m_cmd, m_err) ==
  <<"Error during execution of command: ">> \o Format(m_cmd) \o <<".">>

FailureMessage(m_cmd, m_err) ==
  <<"Error during execution of command: ">> \o Format(m_cmd)
    \o <<".", NL, "Error is ">> \o m_err

\* NonZeroExit with the exit code returned for out_format exit_code.
NonZeroExitConverted(out, er, fmt, ignore, c, m_cmd, m_err) ==
  IF ~ignore
  THEN [outcome |-> "CommandFailed", ret |-> NoValue,
        exc |-> FailureMessage(m_cmd, m_err)]
  ELSE [outcome |-> "returned",
        ret |-> IF fmt = "cpobj" THEN Val("cpobj", c)
                ELSE IF fmt = "exit_code" THEN Val("int", c.returncode)
                ELSE Val("str", Annotated(out, c.returncode, er)),
        exc |-> <<>>]

\* NonZeroExit with the masked stderr in the annotation.
NonZeroExitMaskedAnnotation(out, er, fmt, ignore, c, m_cmd, m_err) ==
  IF ~ignore
  THEN [outcome |-> "CommandFailed", ret |-> NoValue,
        exc |-> FailureMessage(m_cmd, m_err)]
  ELSE [outcome |-> "returned",
        ret |-> IF fmt = "cpobj" THEN Val("cpobj", c)
                ELSE Val("str", Annotated(out, c.returncode, m_err)),
        exc |-> <<>>]

\* The branch for a non-zero exit code (lines 121-131).
NonZeroExit(out, er, fmt, ignore, c, m_cmd, m_err) ==
  IF ~ignore
  THEN [outcome |-> "CommandFailed", ret |-> NoValue,
        exc |-> FailureMessage(m_cmd, m_err)]
  ELSE [outcome |-> "returned",
        ret |-> IF fmt = "cpobj" THEN Val("cpobj", c)
                ELSE Val("str", Annotated(out, c.returncode, er)),
        exc |-> <<>>]

(***************************************************************************)
(* State machine                                                           *)
(***************************************************************************)
Init ==
  /\ pc = "idle"
  /\ cmd = Val("str", <<>>)
  /\ posFmt = Absent /\ kwFmt = Absent
  /\ secrets = [given |-> FALSE, list |-> <<>>]
  /\ ignore_error = FALSE
  /\ extra = {}
  /\ out_format = Absent
  /\ kwargs = {}
  /\ masked_cmd = Val("str", <<>>)
  /\ command = <<>>
  /\ spawned = FALSE
  /\ cp = NoCp
  /\ output = <<>> /\ err = <<>>
  /\ masked_stdout = <<>> /\ masked_stderr = <<>>
  /\ logs = <<>>
  /\ outcome = "none"
  /\ ret = NoValue
  /\ exc = <<>>

\* The call and lines 85-92.
Call ==
  /\ pc = "idle"
  /\ \E c \in Cmds, pf \in Formats \cup {Absent}, kf \in Formats \cup {Absent},
        s \in SecretArgs, ig \in BOOLEAN, ex \in ExtraArgs :
       LET bound == BindOutFormat(pf, kf)
           masked == MaskSecrets(c, s)
           norm == Normalize(c)
       IN /\ cmd' = c /\ posFmt' = pf /\ kwFmt' = kf /\ secrets' = s
          /\ ignore_error' = ig /\ extra' = ex
          /\ IF bound.raised
             THEN /\ pc' = "done" /\ outcome' = "TypeError"
                  /\ UNCHANGED <<out_format, kwargs, masked_cmd, command, logs, ret>>
             ELSE /\ out_format' = bound.out_format
                  /\ kwargs' = ex
                  /\ IF masked.raised
                     THEN /\ pc' = "done" /\ outcome' = "AttributeError"
                          /\ UNCHANGED <<masked_cmd, command, logs, ret>>
                     ELSE /\ masked_cmd' = masked.value
                          /\ logs' = <<Log("INFO", <<"Executing command: ">>
                                                     \o Format(masked.value))>>
                          /\ IF norm.ok
                             THEN /\ command' = norm.command
                                  /\ pc' = "spawn"
                                  /\ UNCHANGED <<outcome, ret>>
                             ELSE /\ pc' = "done" /\ outcome' = "returned"
                                  /\ ret' = Val("str", <<"Error in command">>)
                                  /\ UNCHANGED command
  /\ UNCHANGED <<spawned, cp, output, err, masked_stdout, masked_stderr, exc>>

\* Lines 94-104: the child process runs to its end or to the timeout.
Spawn ==
  /\ pc = "spawn"
  /\ LET popped == PopOutFormat(ForcePipes(kwargs), out_format)
     IN /\ kwargs' = popped.kwargs
        /\ out_format' = popped.out_format
        /\ logs' = Append(logs, Log("INFO", <<"Formatting output as ", popped.out_format>>))
  /\ spawned' = TRUE
  /\ \/ /\ pc' = "done" /\ outcome' = "TimeoutExpired"
        /\ UNCHANGED <<cp, output, err>>
     \/ \E so \in SeqsUpTo(Alphabet, MaxOut), se \in SeqsUpTo(Alphabet, MaxErr),
           rc \in ExitCodes :
          /\ cp' = [args |-> command, returncode |-> rc,
                    stdout |-> Encode(so), stderr |-> Encode(se)]
          /\ output' = Decode(cp'.stdout)
          /\ err' = Decode(cp'.stderr)
          /\ pc' = "log"
          /\ UNCHANGED outcome
  /\ UNCHANGED <<cmd, posFmt, kwFmt, secrets, ignore_error, extra, masked_cmd,
                 command, masked_stdout, masked_stderr, ret, exc>>

\* Lines 106-118.
LogStreams ==
  /\ pc = "log"
  /\ masked_stdout' = MaskText(output, secrets)
  /\ masked_stderr' = MaskText(err, secrets)
  /\ logs' = logs \o StreamLogs(output, err, cp.returncode,
                                masked_stdout', masked_stderr')
  /\ pc' = "branch"
  /\ UNCHANGED <<cmd, posFmt, kwFmt, secrets, ignore_error, extra, out_format,
                 kwargs, masked_cmd, command, spawned, cp, output, err,
                 outcome, ret, exc>>

\* Lines 120-149.
Finish ==
  /\ pc = "branch"
  /\ IF cp.returncode # 0
     THEN LET r == NonZeroExit(output, err, out_format, ignore_error, cp,
                               masked_cmd, masked_stderr)
          IN /\ logs' = Append(logs, ErrorLog(cp.returncode, err))
             /\ outcome' = r.outcome /\ ret' = r.ret /\ exc' = r.exc
     ELSE LET r == ZeroExit(output, out_format, cp)
          IN /\ outcome' = r.outcome /\ ret' = r.ret
             /\ UNCHANGED <<logs, exc>>
  /\ pc' = "done"
  /\ UNCHANGED <<cmd, posFmt, kwFmt, secrets, ignore_error, extra, out_format,
                 kwargs, masked_cmd, command, spawned, cp, output, err,
                 masked_stdout, masked_stderr>>

Next == Call \/ Spawn \/ LogStreams \/ Finish

Spec == Init /\ [][Next]_vars

(***************************************************************************)
(* Properties                                                              *)
(***************************************************************************)
NoSecrets == [given |-> FALSE, list |-> <<>>]
SecretSet == IF secrets.given THEN { secrets.list[i] : i \in 1..Len(secrets.list) } ELSE {}
SameValue(a, b) == a.type = b.type /\ a.val = b.val

\* The arguments bound to the signature (no out_format given twice).
Bound == ~(posFmt # Absent /\ kwFmt # Absent)
\* The call is over and its child process ran to an exit code.
Completed == pc = "done" /\ spawned /\ outcome # "TimeoutExpired"
StdoutText == Decode(cp.stdout)
StderrText == Decode(cp.stderr)

\* C1: a call with a str or list command whose child exits non-zero and whose
\* ignore_error is false ends in CommandFailed, for every out_format; the
\* message contains the masked command and the masked stderr (the raw stderr
\* when no secret occurs in it); nothing is returned and nothing else raised.
C1_NonZeroRaisesCommandFailed ==
  (Completed /\ cmd.type \in {"str", "list"} /\ cp.returncode # 0 /\ ~ignore_error)
    => /\ outcome = "CommandFailed"
       /\ ret.type = "unset"
       /\ Contains(exc, Format(MaskSecrets(cmd, secrets).value))
       /\ Contains(exc, MaskText(StderrText, secrets))
       /\ ((\A s \in SecretSet : ~Contains(StderrText, s)) => Contains(exc, StderrText))

C1_Witness ==
  /\ Completed /\ cp.returncode = 1 /\ ~ignore_error
  /\ outcome = "CommandFailed" /\ out_format = "cpobj"
  /\ cmd.type = "list" /\ StderrText = <<"s">> /\ <<"s">> \in SecretSet
  /\ Contains(exc, Mask)

C3_NoSecretInLogsOrMessage ==
  \A s \in SecretSet :
    /\ \A i \in 1..Len(logs) : ~Contains(logs[i].msg, s)
    /\ ~Contains(exc, s)

\* C4: a call whose cmd is neither a str nor a list does not raise, whatever
\* secrets is; it returns "Error in command" and spawns no child process.
C4_InvalidCommandReturnsSentinel ==
  (pc = "done" /\ Bound /\ cmd.type \notin {"str", "list"})
    => /\ outcome = "returned"
       /\ SameValue(ret, Val("str", <<"Error in command">>))
       /\ ~spawned

\* The lines of a text: the pieces between newlines, without the empty piece
\* that follows a final newline.
Lines(t) ==
  LET parts == SplitNewline(t)
  IN IF Len(parts[Len(parts)]) = 0 THEN SubSeq(parts, 1, Len(parts) - 1) ELSE parts

\* C5: with exit code 0 and out_format list the result is stdout split on
\* newlines less only the empty element after a final newline: every line is
\* in the result, in order, and a last line without newline is not dropped.
C5_ListKeepsEveryLine ==
  (Completed /\ cp.returncode = 0 /\ out_format = "list")
    => /\ outcome = "returned"
       /\ ret.type = "list"
       /\ ret.val = Lines(StdoutText)

\* C6: an out_format given among the keyword options wins over the one given
\* as the function's own parameter and decides the format of the result; it
\* is not among the options handed to subprocess.run, the caller's other
\* keys are.
C6_KeywordOutFormatWins ==
  (pc = "done" /\ kwFmt # Absent /\ cmd.type \in {"str", "list"})
    => /\ spawned
       /\ out_format = kwFmt
       /\ "out_format" \notin Keys(kwargs)
       /\ Keys(extra) \subseteq Keys(kwargs)

\* What the same call returns for the same child process without secrets.
ResultWithoutSecrets ==
  IF ~Normalize(cmd).ok THEN Val("str", <<"Error in command">>)
  ELSE IF cp.returncode # 0
       THEN NonZeroExit(StdoutText, StderrText, out_format, ignore_error, cp,
                        MaskSecrets(cmd, NoSecrets).value,
                        MaskText(StderrText, NoSecrets)).ret
       ELSE ZeroExit(StdoutText, out_format, cp).ret

Unmasked(v) ==
  CASE v.type = "str" -> ~Contains(v.val, <<"*">>)
    [] v.type = "list" -> \A i \in 1..Len(v.val) : ~Contains(v.val[i], <<"*">>)
    [] v.type = "cpobj" -> v.val.stdout = cp.stdout /\ v.val.stderr = cp.stderr
    [] OTHER -> TRUE

\* C7: masking reaches the logs and the CommandFailed message only: a value
\* the call returns is the one the same call returns, for the same child
\* process, without secrets, and carries no mask.
C7_MaskingLeavesResult ==
  (pc = "done" /\ outcome = "returned")
    => /\ SameValue(ret, ResultWithoutSecrets)
       /\ Unmasked(ret)

C7_Witness ==
  /\ pc = "done" /\ outcome = "returned" /\ ignore_error /\ cp.returncode = 1
  /\ <<"s">> \in SecretSet /\ Contains(StdoutText, <<"s">>) /\ StderrText = <<"s">>
  /\ out_format = "string" /\ masked_stderr = Mask /\ Contains(ret.val, <<"s">>)

ProcessLogs(stdoutLevel) ==
  /\ Len(logs) >= 5
  /\ logs[3] = IF Len(StdoutText) > 0
               THEN Log(stdoutLevel, <<"Command stdout: ">> \o MaskText(StdoutText, secrets))
               ELSE Log("DEBUG", <<"Command stdout is empty">>)
  /\ logs[4] = IF Len(StderrText) > 0
               THEN Log("WARNING", <<"Command stderr: ">> \o MaskText(StderrText, secrets))
               ELSE Log("DEBUG", <<"Command stderr is empty">>)
  /\ logs[5] = Log("DEBUG", <<"Command return code: ">> \o IntStr(cp.returncode))
  /\ \A i \in 1..Len(logs) : logs[i].level = "ERROR" => i > 5
  /\ (pc = "branch" => outcome = "none" /\ ret.type = "unset" /\ Len(logs) = 5)

Exited == pc = "branch" \/ Completed

\* C9 as stated: after the child process the call logs, in this order, the
\* masked stdout at INFO (or "empty" at DEBUG), the masked stderr at WARNING
\* (or "empty" at DEBUG) and the exit code at DEBUG, all before the error
\* log of a non-zero exit and before the call returns or raises.
C9_StdoutLoggedAtInfo == Exited => ProcessLogs("INFO")

\* C9 amended: the same, with the masked non-empty stdout logged at DEBUG.
C9_StdoutLoggedAtDebug == Exited => ProcessLogs("DEBUG")

C9_Witness ==
  /\ pc = "done" /\ Completed /\ cp.returncode = 1 /\ Len(logs) = 6
  /\ logs[6].level = "ERROR" /\ logs[3].level = "DEBUG" /\ logs[4].level = "WARNING"
  /\ StdoutText = <<"s">> /\ <<"s">> \in SecretSet /\ logs[3].msg = <<"Command stdout: ">> \o Mask

\* C10: with exit code 0 and out_format list the removal of the last element
\* never fails: the split has at least one element, an empty stdout gives the
\* empty list and the call returns.
C10_PopNeverFails ==
  (Completed /\ cp.returncode = 0 /\ out_format = "list")
    => /\ outcome = "returned"
       /\ ret.type = "list"
       /\ Len(ret.val) + 1 = Len(SplitNewline(StdoutText))
       /\ (StdoutText = <<>> => ret.val = <<>>)

C10_Witness ==
  /\ Completed /\ cp.returncode = 0 /\ out_format = "list"
  /\ StdoutText = <<>> /\ outcome = "returned" /\ ret.type = "list" /\ ret.val = <<>>

====
